---- MODULE Spec2Model ----
(***************************************************************************)
(* Model of the 2D N-body engine of src-tauri/src/physics.rs and of the    *)
(* Tauri commands that drive it through the global SIMULATION mutex.       *)
(*                                                                         *)
(* f64 is modelled as a decimal floating-point number with a Digits-digit  *)
(* mantissa, a bounded exponent and the IEEE special values: every         *)
(* arithmetic operation rounds its result to Digits digits, overflows to   *)
(* +-Inf, and produces NaN exactly where IEEE 754 does (0/0, Inf-Inf,      *)
(* 0*Inf, sqrt of a negative).  Zero carries no sign.                      *)
(***************************************************************************)
EXTENDS Integers, Sequences, FiniteSets, TLC

\* Op(v) with v evaluated once: "let x = v; Op(x)".
Let(v, Op(_)) == CHOOSE r \in {Op(x) : x \in {v}} : TRUE

\* ------------------------------------------------------------------ f64

Pow10(k) ==
    <<1, 10, 100, 1000, 10000, 100000, 1000000, 10000000,
      100000000, 1000000000>>[k + 1]

\* Number of decimal digits of a mantissa (f64 has 53 binary digits).
Digits == 4
\* A finite non-zero value is m * 10^e with MantMin <= |m| <= MantMax.
MantMin == Pow10(Digits - 1)
MantMax == Pow10(Digits) - 1
\* Largest and smallest exponent of a finite value (f64: about +-308).
ExpMax == 40
ExpMin == 0 - ExpMax

Abs(n) == IF n < 0 THEN -n ELSE n
Sign(n) == IF n < 0 THEN -1 ELSE 1

NaN == [c |-> "nan", m |-> 0, e |-> 0]
PInf == [c |-> "inf", m |-> 1, e |-> 0]
NInf == [c |-> "inf", m |-> -1, e |-> 0]
Zero == [c |-> "fin", m |-> 0, e |-> 0]
Inf(s) == [c |-> "inf", m |-> s, e |-> 0]

IsNaN(x) == x.c = "nan"
IsInf(x) == x.c = "inf"
IsFinite(x) == x.c = "fin"
IsZero(x) == x.c = "fin" /\ x.m = 0

\* Number of decimal digits of a positive integer below 2^31.
NumDigits(a) ==
    IF a < 10 THEN 1 ELSE IF a < 100 THEN 2 ELSE IF a < 1000 THEN 3
    ELSE IF a < 10000 THEN 4 ELSE IF a < 100000 THEN 5
    ELSE IF a < 1000000 THEN 6 ELSE IF a < 10000000 THEN 7
    ELSE IF a < 100000000 THEN 8 ELSE IF a < 1000000000 THEN 9 ELSE 10

\* s * m * 10^e, MantMin <= m <= MantMax: overflow to Inf, underflow to 0.
Fin(s, m, e) ==
    IF e > ExpMax THEN Inf(s)
    ELSE IF e < ExpMin THEN Zero
    ELSE [c |-> "fin", m |-> s * m, e |-> e]

\* s * q * 10^e where rounding may have carried q up to MantMax + 1.
Pack(s, q, e) == IF q > MantMax THEN Fin(s, MantMin, e + 1) ELSE Fin(s, q, e)

\* s * a * 10^e with a of Digits + k digits, rounded to Digits digits
\* (to nearest, ties away from zero).
Scale(s, a, e, k) ==
    Pack(s,
         IF k > 0 THEN (a + 5 * Pow10(k - 1)) \div Pow10(k) ELSE a * Pow10(-k),
         e + k)

\* The f64 nearest to s * a * 10^e, a >= 0.
Round(s, a, e) ==
    IF a = 0 THEN Zero ELSE Scale(s, a, e, NumDigits(a) - Digits)

\* The f64 nearest to n * 10^e: a literal.
F(n, e) == Round(Sign(n), Abs(n), e)

Neg(x) == [x EXCEPT !.m = -x.m]

Mul(x, y) ==
    IF IsNaN(x) \/ IsNaN(y) THEN NaN
    ELSE IF IsInf(x) \/ IsInf(y)
         THEN IF IsZero(x) \/ IsZero(y) THEN NaN
              ELSE Inf(Sign(x.m) * Sign(y.m))
    ELSE Round(Sign(x.m) * Sign(y.m), Abs(x.m) * Abs(y.m), x.e + y.e)

Div(x, y) ==
    IF IsNaN(x) \/ IsNaN(y) THEN NaN
    ELSE IF IsInf(x)
         THEN IF IsInf(y) THEN NaN ELSE Inf(Sign(x.m) * Sign(y.m))
    ELSE IF IsInf(y) THEN Zero
    ELSE IF IsZero(y)
         THEN IF IsZero(x) THEN NaN ELSE Inf(Sign(x.m))
    ELSE Round(Sign(x.m) * Sign(y.m),
               (Abs(x.m) * Pow10(Digits + 1)) \div Abs(y.m),
               x.e - y.e - (Digits + 1))

\* The mantissa m of a value d decimal places below the larger operand,
\* brought to the scale of that operand's mantissa times 10^Digits.
Shift(m, d) ==
    IF d <= Digits THEN m * Pow10(Digits - d)
    ELSE IF d <= 2 * Digits THEN Sign(m) * (Abs(m) \div Pow10(d - Digits))
    ELSE 0

\* Sum of two finite non-zero values, x the one of the larger exponent.
AddAligned(x, y) == F(x.m * Pow10(Digits) + Shift(y.m, x.e - y.e), x.e - Digits)

Add(x, y) ==
    IF IsNaN(x) \/ IsNaN(y) THEN NaN
    ELSE IF IsInf(x)
         THEN IF IsInf(y) /\ x.m # y.m THEN NaN ELSE x
    ELSE IF IsInf(y) THEN y
    ELSE IF IsZero(x) THEN y
    ELSE IF IsZero(y) THEN x
    ELSE IF x.e >= y.e THEN AddAligned(x, y) ELSE AddAligned(y, x)

Sub(x, y) == Add(x, Neg(y))

\* Floor of the square root of n >= 0, by bisection on lo..hi.
RECURSIVE ISqrtIn(_, _, _)
ISqrtIn(n, lo, hi) ==
    IF lo >= hi THEN lo
    ELSE Let((lo + hi + 1) \div 2,
             LAMBDA mid : IF mid * mid <= n THEN ISqrtIn(n, mid, hi)
                          ELSE ISqrtIn(n, lo, mid - 1))

ISqrt(n) == ISqrtIn(n, 0, 31622)

\* Square root of m * 10^e, m > 0, e even.
SqrtEven(m, e) == Round(1, ISqrt(m), e \div 2)

Sqrt(x) ==
    IF IsNaN(x) THEN NaN
    ELSE IF IsInf(x) THEN (IF x.m < 0 THEN NaN ELSE PInf)
    ELSE IF x.m = 0 THEN Zero
    ELSE IF x.m < 0 THEN NaN
    ELSE IF x.e % 2 = 0 THEN SqrtEven(x.m * Pow10(Digits), x.e - Digits)
    ELSE SqrtEven(x.m * Pow10(Digits + 1), x.e - (Digits + 1))

\* x < y on f64: false when either side is NaN.
Lt(x, y) ==
    IF IsNaN(x) \/ IsNaN(y) THEN FALSE
    ELSE IF IsInf(x) THEN x.m < 0 /\ y # NInf
    ELSE IF IsInf(y) THEN y.m > 0
    ELSE IF x.m = 0 \/ y.m = 0 \/ Sign(x.m) # Sign(y.m) THEN x.m < y.m
    ELSE IF x.e # y.e
         THEN (IF x.m > 0 THEN x.e < y.e ELSE x.e > y.e)
    ELSE x.m < y.m

\* x <= y on f64: false when either side is NaN.
Le(x, y) == ~IsNaN(x) /\ ~IsNaN(y) /\ ~Lt(y, x)

\* f64::max: the other operand when one is NaN.
Max(x, y) ==
    IF IsNaN(x) THEN y
    ELSE IF IsNaN(y) THEN x
    ELSE IF Lt(x, y) THEN y ELSE x

\* ------------------------------------------------------- Vec2 and Body

Vec2(x, y) == [x |-> x, y |-> y]

\* (dx * dx + dy * dy).sqrt()
Hypot(dx, dy) == Sqrt(Add(Mul(dx, dx), Mul(dy, dy)))

\* Vec2::distance
distance(a, b) == Hypot(Sub(a.x, b.x), Sub(a.y, b.y))

Body(id, mass, position, velocity, radius, color) ==
    [id |-> id, mass |-> mass, position |-> position, velocity |-> velocity,
     radius |-> radius, color |-> color]

\* ------------------------------------------------- SimulationState::new

\* let g = 6.67430e-1
g == F(667430, -6)
sun_mass == F(8, 3)
sun == Body(1, F(8, 3), Vec2(Zero, Zero), Vec2(Zero, Zero), F(25, 0), "#ffcc00")

\* (mass, distance, radius, color)
planet_data ==
    << <<F(1, 3), F(120, 0), F(10, 0), "#ff9999">>,
       <<F(15, 2), F(200, 0), F(12, 0), "#3366ff">>,
       <<F(3, 3), F(350, 0), F(18, 0), "#ff6600">>,
       <<F(2, 3), F(450, 0), F(15, 0), "#33ccff">> >>

moon_data ==
    << <<F(100, 0), F(35, 0), F(4, 0), "#cccccc">>,
       <<F(50, 0), F(25, 0), F(3, 0), "#aaaaaa">> >>

\* f64 cos and sin of q quarter turns (q * PI / 2 as the code computes
\* the angle), q in 0..3: the f64 values, which are not exactly zero
\* where the real functions vanish.
CosQ(q) == <<F(1, 0), F(6123, -20), F(-1, 0), F(-1837, -19)>>[q + 1]
SinQ(q) == <<Zero, F(1, 0), F(1225, -19), F(-1, 0)>>[q + 1]

\* A body on a circular orbit: d = (mass, distance, radius, color), at
\* the angle of cosine c and sine s, around the position and velocity
\* given, at orbital_speed.
Orbiting(id, d, c, s, position, velocity, orbital_speed) ==
    Body(id, d[1],
         Vec2(Add(position.x, Mul(c, d[2])), Add(position.y, Mul(s, d[2]))),
         Vec2(Sub(velocity.x, Mul(s, orbital_speed)),
              Add(velocity.y, Mul(c, orbital_speed))),
         d[3], d[4])

\* The body pushed by iteration i (0-based) of the planet loop:
\* angle = 2 PI i / 4, i.e. i quarter turns; position and velocity are
\* not offset (the sun rests at the origin).
Planet(i) ==
    Let(planet_data[i + 1], LAMBDA d :
        Orbiting(i + 2, d, CosQ(i), SinQ(i), Vec2(Zero, Zero), Vec2(Zero, Zero),
                 Sqrt(Div(Mul(g, sun_mass), d[2]))))

\* Moon with the id taken before the push is counted: bodies.len().
Moon_IdOfLen(planet, n, i) ==
    Let(moon_data[i + 1], LAMBDA d :
        Orbiting(n, d, CosQ(i), SinQ(i), planet.position, planet.velocity,
                 Sqrt(Div(Mul(g, planet.mass), d[2]))))

\* The body pushed by iteration i (0-based) of the moon loop when the
\* list holds n bodies: angle = PI i / 2, i.e. i quarter turns, around
\* planet = bodies[planet_index] as it was before the loop.
Moon(planet, n, i) ==
    Let(moon_data[i + 1], LAMBDA d :
        Orbiting(n + 1, d, CosQ(i), SinQ(i), planet.position, planet.velocity,
                 Sqrt(Div(Mul(g, planet.mass), d[2]))))

Planets == <<sun, Planet(0), Planet(1), Planet(2), Planet(3)>>

NewBodies ==
    Let(Planets, LAMBDA bodies :
        bodies \o <<Moon(bodies[3], Len(bodies), 0),
                    Moon(bodies[3], Len(bodies) + 1, 1)>>)

New ==
    [bodies |-> NewBodies,
     time_step |-> F(1, -2),
     time_multiplier |-> F(1, 0),
     gravity_constant |-> g,
     is_running |-> FALSE,
     elapsed_time |-> Zero]

\* -------------------------------------- SimulationState::calculate_forces

\* force_magnitude * (dx, dy) / dist
Directed(force_magnitude, dx, dy, dist) ==
    Vec2(Div(Mul(force_magnitude, dx), dist), Div(Mul(force_magnitude, dy), dist))

\* (force_x, force_y) of the pair body1, body2 at distance dist.
PairForceAt(gravity_constant, body1, body2, dist) ==
    Let(Max(dist, Mul(Add(body1.radius, body2.radius), F(8, -1))),
        LAMBDA clamped_dist :
            Directed(Div(Mul(Mul(gravity_constant, body1.mass), body2.mass),
                         Mul(clamped_dist, clamped_dist)),
                     Sub(body2.position.x, body1.position.x),
                     Sub(body2.position.y, body1.position.y),
                     dist))

PairForce(gravity_constant, body1, body2) ==
    Let(distance(body1.position, body2.position),
        LAMBDA dist : PairForceAt(gravity_constant, body1, body2, dist))

\* forces[i] += force; forces[j] -= force
Accumulate(forces, i, j, force) ==
    [forces EXCEPT
       ![i] = Vec2(Add(@.x, force.x), Add(@.y, force.y)),
       ![j] = Vec2(Sub(@.x, force.x), Sub(@.y, force.y))]

\* The nested loops "for i in 0..n { for j in (i+1)..n" from (i, j) on
\* (1-based here).
RECURSIVE ForceLoop(_, _, _, _)
ForceLoop(s, forces, i, j) ==
    IF i > Len(s.bodies) THEN forces
    ELSE IF j > Len(s.bodies) THEN ForceLoop(s, forces, i + 1, i + 2)
    ELSE Let(PairForce(s.gravity_constant, s.bodies[i], s.bodies[j]),
             LAMBDA force :
                 ForceLoop(s, Accumulate(forces, i, j, force), i, j + 1))

calculate_forces(s) ==
    ForceLoop(s, [k \in 1..Len(s.bodies) |-> Vec2(Zero, Zero)], 1, 2)

\* -------------------------------------- SimulationState::handle_collisions

\* The tuple pushed onto collision_data, from the contact normal n, the
\* impulse and the position correction along it.
Entry(i, j, n, impulse_scalar, correction, inv_mass1, inv_mass2, inv_sum) ==
    [i |-> i, j |-> j,
     vel_i |-> Vec2(Mul(Neg(Mul(impulse_scalar, n.x)), inv_mass1),
                    Mul(Neg(Mul(impulse_scalar, n.y)), inv_mass1)),
     vel_j |-> Vec2(Mul(Mul(impulse_scalar, n.x), inv_mass2),
                    Mul(Mul(impulse_scalar, n.y), inv_mass2)),
     pos_i |-> Vec2(Div(Mul(Neg(Mul(n.x, correction)), inv_mass1), inv_sum),
                    Div(Mul(Neg(Mul(n.y, correction)), inv_mass1), inv_sum)),
     pos_j |-> Vec2(Div(Mul(Mul(n.x, correction), inv_mass2), inv_sum),
                    Div(Mul(Mul(n.y, correction), inv_mass2), inv_sum))]

\* Resolve with percent 0.8.
Resolve_Percent80(i, j, n, relative_vel_dot_normal, penetration, inv_mass1, inv_mass2) ==
    Let(Add(inv_mass1, inv_mass2), LAMBDA inv_sum :
        Entry(i, j, n,
              Div(Mul(Neg(Add(F(1, 0), F(7, -1))), relative_vel_dot_normal),
                  inv_sum),
              Mul(penetration, F(8, -1)),
              inv_mass1, inv_mass2, inv_sum))

\* The body of "if relative_vel_dot_normal < 0.0": restitution 0.7,
\* penetration * percent with percent 0.4.
Resolve(i, j, n, relative_vel_dot_normal, penetration, inv_mass1, inv_mass2) ==
    Let(Add(inv_mass1, inv_mass2), LAMBDA inv_sum :
        Entry(i, j, n,
              Div(Mul(Neg(Add(F(1, 0), F(7, -1))), relative_vel_dot_normal),
                  inv_sum),
              Mul(penetration, F(4, -1)),
              inv_mass1, inv_mass2, inv_sum))

\* The body of "if distance < body1.radius + body2.radius", n the
\* contact normal (nx, ny).
Contact(i, j, body1, body2, dist, n) ==
    Let(Add(Mul(Sub(body2.velocity.x, body1.velocity.x), n.x),
            Mul(Sub(body2.velocity.y, body1.velocity.y), n.y)),
        LAMBDA relative_vel_dot_normal :
            IF Lt(relative_vel_dot_normal, Zero)
            THEN <<Resolve(i, j, n, relative_vel_dot_normal,
                           Sub(Add(body1.radius, body2.radius), dist),
                           Div(F(1, 0), body1.mass), Div(F(1, 0), body2.mass))>>
            ELSE << >>)

\* (dx * inv_dist, dy * inv_dist) with inv_dist = 1.0 / distance.max(0.001)
Normal(body1, body2, inv_dist) ==
    Vec2(Mul(Sub(body2.position.x, body1.position.x), inv_dist),
         Mul(Sub(body2.position.y, body1.position.y), inv_dist))

Overlapping(body1, body2, dist) == Lt(dist, Add(body1.radius, body2.radius))

\* What the pair (i, j) pushes onto collision_data: zero or one tuples.
CollisionEntry(bodies, i, j) ==
    Let(distance(bodies[i].position, bodies[j].position), LAMBDA dist :
        IF Overlapping(bodies[i], bodies[j], dist)
        THEN Let(Normal(bodies[i], bodies[j], Div(F(1, 0), Max(dist, F(1, -3)))),
                 LAMBDA n : Contact(i, j, bodies[i], bodies[j], dist, n))
        ELSE << >>)

\* The detection loops from (i, j) on: every tuple is computed from the
\* same, unmodified body list.
RECURSIVE DetectLoop(_, _, _, _)
DetectLoop(bodies, data, i, j) ==
    IF i > Len(bodies) THEN data
    ELSE IF j > Len(bodies) THEN DetectLoop(bodies, data, i + 1, i + 2)
    ELSE Let(data \o CollisionEntry(bodies, i, j),
             LAMBDA pushed : DetectLoop(bodies, pushed, i, j + 1))

collision_data(bodies) == DetectLoop(bodies, << >>, 1, 2)

AddVec(a, b) == Vec2(Add(a.x, b.x), Add(a.y, b.y))

\* One iteration of the loop that applies collision_data.
ApplyEntry(bodies, c) ==
    [bodies EXCEPT
       ![c.i] = [@ EXCEPT !.velocity = AddVec(@, c.vel_i),
                          !.position = AddVec(@, c.pos_i)],
       ![c.j] = [@ EXCEPT !.velocity = AddVec(@, c.vel_j),
                          !.position = AddVec(@, c.pos_j)]]

RECURSIVE ApplyLoop(_, _)
ApplyLoop(bodies, data) ==
    IF data = << >> THEN bodies
    ELSE Let(ApplyEntry(bodies, Head(data)),
             LAMBDA applied : ApplyLoop(applied, Tail(data)))

\* handle_collisions applying each pair's correction as soon as the pair
\* is detected, so that later pairs see bodies already corrected.
RECURSIVE InPlaceLoop(_, _, _)
InPlaceLoop(bodies, i, j) ==
    IF i > Len(bodies) THEN bodies
    ELSE IF j > Len(bodies) THEN InPlaceLoop(bodies, i + 1, i + 2)
    ELSE Let(ApplyLoop(bodies, CollisionEntry(bodies, i, j)),
             LAMBDA applied : InPlaceLoop(applied, i, j + 1))
handle_collisions_InPlace(bodies) == InPlaceLoop(bodies, 1, 2)

handle_collisions(bodies) ==
    Let(collision_data(bodies), LAMBDA data : ApplyLoop(bodies, data))

\* ------------------------------------------------- SimulationState::step

\* position += velocity * effective_time_step, velocity the updated one.
Move(body, velocity, effective_time_step) ==
    [body EXCEPT
       !.velocity = velocity,
       !.position = Vec2(Add(@.x, Mul(velocity.x, effective_time_step)),
                         Add(@.y, Mul(velocity.y, effective_time_step)))]

\* Integrate as explicit Euler: the position from the velocity before
\* the update.
Integrate_Explicit(body, force, effective_time_step) ==
    [Move(body, body.velocity, effective_time_step) EXCEPT
       !.velocity =
           Vec2(Add(body.velocity.x,
                    Mul(Div(force.x, body.mass), effective_time_step)),
                Add(body.velocity.y,
                    Mul(Div(force.y, body.mass), effective_time_step)))]

\* The body of the integration loop for one body.
Integrate(body, force, effective_time_step) ==
    Move(body,
         Vec2(Add(body.velocity.x,
                  Mul(Div(force.x, body.mass), effective_time_step)),
              Add(body.velocity.y,
                  Mul(Div(force.y, body.mass), effective_time_step))),
         effective_time_step)

\* The integration loop "for (i, body) in bodies.iter_mut().enumerate()"
\* up to and including body k.
RECURSIVE IntegrateLoop(_, _, _, _)
IntegrateLoop(bodies, forces, effective_time_step, k) ==
    IF k = 0 THEN << >>
    ELSE Append(IntegrateLoop(bodies, forces, effective_time_step, k - 1),
                Integrate(bodies[k], forces[k], effective_time_step))

\* RunStep with elapsed_time -= effective_time_step.
RunStep_Backwards(s, effective_time_step) ==
    Let(calculate_forces(s), LAMBDA forces :
        [s EXCEPT
           !.bodies = handle_collisions(
               IntegrateLoop(s.bodies, forces, effective_time_step,
                             Len(s.bodies))),
           !.elapsed_time = Sub(s.elapsed_time, effective_time_step)])

\* step() once is_running has been found true.
RunStep(s, effective_time_step) ==
    Let(calculate_forces(s), LAMBDA forces :
        [s EXCEPT
           !.bodies = handle_collisions(
               IntegrateLoop(s.bodies, forces, effective_time_step,
                             Len(s.bodies))),
           !.elapsed_time = Add(s.elapsed_time, effective_time_step)])

\* step without the early return on !is_running.
step_Unguarded(s) ==
    Let(Mul(s.time_step, s.time_multiplier),
        LAMBDA effective_time_step : RunStep(s, effective_time_step))

step(s) ==
    IF ~s.is_running THEN s
    ELSE Let(Mul(s.time_step, s.time_multiplier),
             LAMBDA effective_time_step : RunStep(s, effective_time_step))

\* ------------------------------------------------------ Tauri commands

\* Option<T>
None == [some |-> FALSE, v |-> Zero]
NoColor == [some |-> FALSE, v |-> ""]
Some(x) == [some |-> TRUE, v |-> x]

\* sim.bodies.iter_mut().find(|b| b.id == id): the index of the first
\* body of that id, 0 when there is none.
FindBody(bodies, id) ==
    IF \E k \in 1..Len(bodies) : bodies[k].id = id
    THEN CHOOSE k \in 1..Len(bodies) :
             /\ bodies[k].id = id
             /\ \A h \in 1..(k - 1) : bodies[h].id # id
    ELSE 0

\* PatchBody with position_y written to position.x.
PatchBody_Swapped(body, mass, position_x, position_y, velocity_x, velocity_y, radius, color) ==
    [body EXCEPT
       !.mass = IF mass.some THEN mass.v ELSE @,
       !.position.x = IF position_y.some THEN position_y.v ELSE @,
       !.position.y = IF position_y.some THEN position_y.v ELSE @,
       !.velocity.x = IF velocity_x.some THEN velocity_x.v ELSE @,
       !.velocity.y = IF velocity_y.some THEN velocity_y.v ELSE @,
       !.radius = IF radius.some THEN radius.v ELSE @,
       !.color = IF color.some THEN color.v ELSE @]

\* The assignments of update_body to the body found.
PatchBody(body, mass, position_x, position_y, velocity_x, velocity_y, radius, color) ==
    [body EXCEPT
       !.mass = IF mass.some THEN mass.v ELSE @,
       !.position.x = IF position_x.some THEN position_x.v ELSE @,
       !.position.y = IF position_y.some THEN position_y.v ELSE @,
       !.velocity.x = IF velocity_x.some THEN velocity_x.v ELSE @,
       !.velocity.y = IF velocity_y.some THEN velocity_y.v ELSE @,
       !.radius = IF radius.some THEN radius.v ELSE @,
       !.color = IF color.some THEN color.v ELSE @]

update_body(s, id, p) ==
    LET k == FindBody(s.bodies, id)
    IN  IF k = 0 THEN s
        ELSE [s EXCEPT !.bodies[k] =
                 PatchBody(@, p.mass, p.position_x, p.position_y,
                           p.velocity_x, p.velocity_y, p.radius, p.color)]

set_simulation_running(s, running) == [s EXCEPT !.is_running = running]

set_time_multiplier(s, multiplier) == [s EXCEPT !.time_multiplier = multiplier]

\* reset_simulation restoring the bodies only.
reset_simulation_BodiesOnly(s) == [s EXCEPT !.bodies = NewBodies]

reset_simulation(s) == New

\* ----------------------------------------------------------------- bounds

\* Number of commands issued in a behaviour.
MaxOps == 3
\* Number of commands issued by the concurrent callers together.
MaxCalls == 3

\* --------------------------------------------------------------- inputs

NoPatch ==
    [mass |-> None, position_x |-> None, position_y |-> None,
     velocity_x |-> None, velocity_y |-> None, radius |-> None,
     color |-> NoColor]

\* Only the mass.
MassPatch == [NoPatch EXCEPT !.mass = Some(F(2, 3))]
\* Only position_x: onto the x of the sun.
PosXPatch == [NoPatch EXCEPT !.position_x = Some(Zero)]
\* Only the color.
ColorPatch == [NoPatch EXCEPT !.color = Some("#000000")]
\* Every field: a body overlapping the sun and moving towards it.
FullPatch ==
    [mass |-> Some(F(5, 2)), position_x |-> Some(F(30, 0)),
     position_y |-> Some(F(1, 0)), velocity_x |-> Some(F(-10, 0)),
     velocity_y |-> Some(F(5, -1)), radius |-> Some(F(8, 0)),
     color |-> Some("#ffffff")]

Patches == {MassPatch, PosXPatch, ColorPatch, FullPatch}
\* Ids of update_body: the sun, the first planet, and an id no body has.
Ids == {1, 2, 8}
Multipliers == {F(-1, 0), Zero, F(2, 0)}

Threads == {1, 2}

\* ---------------------------------------------------------------- state

VARIABLES
    sim,        \* the SimulationState inside SIMULATION
    op,         \* the command that ran last
    ret,        \* what it returned: <<snapshot>>, or << >> for ()
    nops,       \* number of commands issued so far
    lock,       \* the thread holding the mutex, 0 when it is free
    pc,         \* per thread: where it is in its command
    cmd,        \* per thread: the command it runs
    loc,        \* per thread: the locals of step()
    tret,       \* per thread: what its command returned
    committed   \* the state when the mutex was last released

vars == <<sim, op, ret, nops, lock, pc, cmd, loc, tret, committed>>
threadVars == <<lock, pc, cmd, loc, tret, committed>>

Command(name, id, patch, running, multiplier) ==
    [name |-> name, id |-> id, patch |-> patch, running |-> running,
     multiplier |-> multiplier]
NoCommand == Command("none", 0, NoPatch, FALSE, Zero)
NoLocals == [dt |-> Zero, forces |-> << >>, k |-> 0, data |-> << >>]

Init ==
    /\ sim = New
    /\ op = NoCommand
    /\ ret = << >>
    /\ nops = 0
    /\ lock = 0
    /\ pc = [t \in Threads |-> "idle"]
    /\ cmd = [t \in Threads |-> NoCommand]
    /\ loc = [t \in Threads |-> NoLocals]
    /\ tret = [t \in Threads |-> << >>]
    /\ committed = New

\* ------------------------------------- one caller: each command as a whole

Ran(c, s, r) ==
    /\ nops < MaxOps
    /\ nops' = nops + 1
    /\ op' = c
    /\ sim' = s
    /\ ret' = r
    /\ UNCHANGED threadVars

GetSimulationState ==
    Ran(Command("get_simulation_state", 0, NoPatch, FALSE, Zero), sim, <<sim>>)

SetSimulationRunning ==
    \E running \in BOOLEAN :
        Ran(Command("set_simulation_running", 0, NoPatch, running, Zero),
            set_simulation_running(sim, running), << >>)

ResetSimulation ==
    Ran(Command("reset_simulation", 0, NoPatch, FALSE, Zero),
        reset_simulation(sim), << >>)

StepSimulation ==
    \E stepped \in {step(sim)} :
        Ran(Command("step_simulation", 0, NoPatch, FALSE, Zero),
            stepped, <<stepped>>)

SetTimeMultiplier ==
    \E multiplier \in Multipliers :
        Ran(Command("set_time_multiplier", 0, NoPatch, FALSE, multiplier),
            set_time_multiplier(sim, multiplier), << >>)

UpdateBody ==
    \E id \in Ids, p \in Patches :
        Ran(Command("update_body", id, p, FALSE, Zero),
            update_body(sim, id, p), << >>)

Next ==
    \/ GetSimulationState
    \/ SetSimulationRunning
    \/ ResetSimulation
    \/ StepSimulation
    \/ SetTimeMultiplier
    \/ UpdateBody

Spec == Init /\ [][Next]_vars

\* --------------------------- handle_collisions, as a function of the bodies

\* update_body with every field but the color given.
PlacePatch(mass, position, velocity, radius) ==
    [mass |-> Some(mass), position_x |-> Some(position.x),
     position_y |-> Some(position.y), velocity_x |-> Some(velocity.x),
     velocity_y |-> Some(velocity.y), radius |-> Some(radius),
     color |-> NoColor]

\* Directions, as ten times a unit vector, and centres of the scenes.
Directions == {<<10, 0>>, <<0, 10>>, <<-10, 0>>, <<6, 8>>, <<-8, 6>>}
Centres == {<<0, 0>>, <<40, -30>>, <<-60, 20>>}
SceneMasses == {F(1, 0), F(1, 3), F(8, 3)}

\* With u ten times a unit vector: the point c + (h / 100) * (u / 10) and
\* the velocity v * (u / 10).
PointAt(c, u, h) ==
    Vec2(F(1000 * c[1] + h * u[1], -3), F(1000 * c[2] + h * u[2], -3))
VelocityAt(u, v) == Vec2(F(v * u[1], -1), F(v * u[2], -1))

\* Bodies 1 and 2 of the default state replaced by two bodies of mass m
\* and radius 10, 15 apart about c along u, each moving at speed 10
\* towards the other.
HeadOn(m, c, u) ==
    update_body(
        update_body(New, 1,
            PlacePatch(m, PointAt(c, u, -750), VelocityAt(u, 10), F(10, 0))),
        2, PlacePatch(m, PointAt(c, u, 750), VelocityAt(u, -10), F(10, 0)))

HeadOnScenes ==
    {HeadOn(m, c, u) : m \in SceneMasses, c \in Centres, u \in Directions}

\* Masses of the three bodies, and their distances from the middle one.
MassTriples ==
    {<<F(1, 3), F(1, 3), F(1, 3)>>, <<F(1, 3), F(2, 3), F(5, 2)>>,
     <<F(8, 3), F(50, 0), F(3, 3)>>}
Gaps == {<<1500, 1500>>, <<1500, 1200>>, <<1200, 1200>>}
\* Directions from the middle body to the two others.
Arms == {<< <<-10, 0>>, <<10, 0>> >>, << <<-10, 0>>, <<0, 10>> >>,
         << <<6, 8>>, <<-8, 6>> >>}
\* Which of the bodies 1, 2, 3 is the middle one, and the two others.
Roles == {<<1, 2, 3>>, <<2, 1, 3>>, <<3, 1, 2>>, <<2, 3, 1>>}

\* Bodies 1, 2 and 3 of the default state replaced by three bodies of
\* radius 10: the middle one r[1] at c, r[2] and r[3] overlapping it at
\* the ends of the arms and moving towards it.
ThreeBody(ms, c, gap, arm, r) ==
    update_body(
        update_body(
            update_body(New, r[1],
                PlacePatch(ms[1], PointAt(c, arm[1], 0), VelocityAt(arm[1], 1),
                           F(10, 0))),
            r[2], PlacePatch(ms[2], PointAt(c, arm[1], gap[1]),
                             VelocityAt(arm[1], -12), F(10, 0))),
        r[3], PlacePatch(ms[3], PointAt(c, arm[2], gap[2]),
                         VelocityAt(arm[2], -7), F(10, 0)))

ThreeBodyScenes ==
    {ThreeBody(ms, c, gap, arm, r) :
        ms \in MassTriples, c \in {<<0, 0>>, <<40, -30>>}, gap \in Gaps,
        arm \in Arms, r \in Roles}

InitCollide ==
    /\ sim \in HeadOnScenes \cup ThreeBodyScenes
    /\ op = NoCommand
    /\ ret = << >>
    /\ nops = 0
    /\ lock = 0
    /\ pc = [t \in Threads |-> "idle"]
    /\ cmd = [t \in Threads |-> NoCommand]
    /\ loc = [t \in Threads |-> NoLocals]
    /\ tret = [t \in Threads |-> << >>]
    /\ committed = New

\* self.handle_collisions()
HandleCollisions ==
    /\ nops = 0
    /\ nops' = 1
    /\ op' = Command("handle_collisions", 0, NoPatch, FALSE, Zero)
    /\ sim' = [sim EXCEPT !.bodies = handle_collisions(@)]
    /\ UNCHANGED <<ret, lock, pc, cmd, loc, tret, committed>>

SpecCollide == InitCollide /\ [][HandleCollisions]_vars

\* ------------------- several callers: SIMULATION.lock() and the guard's drop

\* The commands the concurrent callers issue.
Calls ==
    {Command("get_simulation_state", 0, NoPatch, FALSE, Zero),
     Command("step_simulation", 0, NoPatch, FALSE, Zero),
     Command("set_simulation_running", 0, NoPatch, TRUE, Zero),
     Command("update_body", 2, FullPatch, FALSE, Zero)}

Writers == {"set_simulation_running", "set_time_multiplier",
            "reset_simulation", "update_body"}

\* What a command that returns () does to the state, between lock() and
\* the end of its body.
Effect(c, s) ==
    IF c.name = "set_simulation_running" THEN set_simulation_running(s, c.running)
    ELSE IF c.name = "set_time_multiplier" THEN set_time_multiplier(s, c.multiplier)
    ELSE IF c.name = "reset_simulation" THEN reset_simulation(s)
    ELSE update_body(s, c.id, c.patch)

Goto(t, label) == pc' = [pc EXCEPT ![t] = label]

\* The frontend invokes a command on thread t.
Call(t) ==
    /\ pc[t] = "idle"
    /\ nops < MaxCalls
    /\ \E c \in Calls : cmd' = [cmd EXCEPT ![t] = c]
    /\ nops' = nops + 1
    /\ Goto(t, "lock")
    /\ loc' = [loc EXCEPT ![t] = NoLocals]
    /\ tret' = [tret EXCEPT ![t] = << >>]
    /\ UNCHANGED <<sim, op, ret, lock, committed>>

\* Acquire that does not wait for the mutex to be free.
Acquire_NoWait(t) ==
    /\ pc[t] = "lock"
    /\ lock' = t
    /\ Goto(t, "body")
    /\ UNCHANGED <<sim, op, ret, nops, cmd, loc, tret, committed>>

\* SIMULATION.lock().unwrap(): blocks until the mutex is free.
Acquire(t) ==
    /\ pc[t] = "lock"
    /\ lock = 0
    /\ lock' = t
    /\ Goto(t, "body")
    /\ UNCHANGED <<sim, op, ret, nops, cmd, loc, tret, committed>>

\* The body of a command that returns ().
Write(t) ==
    /\ pc[t] = "body"
    /\ cmd[t].name \in Writers
    /\ sim' = Effect(cmd[t], sim)
    /\ Goto(t, "unlock")
    /\ UNCHANGED <<op, ret, nops, lock, cmd, loc, tret, committed>>

\* step(): the is_running test, effective_time_step and calculate_forces.
StepEnter(t) ==
    /\ pc[t] = "body"
    /\ cmd[t].name = "step_simulation"
    /\ IF ~sim.is_running
       THEN Goto(t, "clone") /\ UNCHANGED loc
       ELSE /\ Goto(t, "integrate")
            /\ loc' = [loc EXCEPT ![t] =
                   [dt |-> Mul(sim.time_step, sim.time_multiplier),
                    forces |-> calculate_forces(sim), k |-> 1, data |-> << >>]]
    /\ UNCHANGED <<sim, op, ret, nops, lock, cmd, tret, committed>>

\* step(): one iteration of the integration loop.
StepIntegrate(t) ==
    /\ pc[t] = "integrate"
    /\ loc[t].k <= Len(sim.bodies)
    /\ sim' = [sim EXCEPT !.bodies[loc[t].k] =
                  Integrate(@, loc[t].forces[loc[t].k], loc[t].dt)]
    /\ loc' = [loc EXCEPT ![t].k = @ + 1]
    /\ UNCHANGED <<op, ret, nops, lock, pc, cmd, tret, committed>>

\* handle_collisions(): the detection loops, which only read the bodies.
StepDetect(t) ==
    /\ pc[t] = "integrate"
    /\ loc[t].k > Len(sim.bodies)
    /\ loc' = [loc EXCEPT ![t].data = collision_data(sim.bodies)]
    /\ Goto(t, "apply")
    /\ UNCHANGED <<sim, op, ret, nops, lock, cmd, tret, committed>>

\* handle_collisions(): the loop that applies collision_data.
StepApply(t) ==
    /\ pc[t] = "apply"
    /\ sim' = [sim EXCEPT !.bodies = ApplyLoop(@, loc[t].data)]
    /\ Goto(t, "advance")
    /\ UNCHANGED <<op, ret, nops, lock, cmd, loc, tret, committed>>

\* step(): self.elapsed_time += effective_time_step
StepAdvance(t) ==
    /\ pc[t] = "advance"
    /\ sim' = [sim EXCEPT !.elapsed_time = Add(@, loc[t].dt)]
    /\ Goto(t, "clone")
    /\ UNCHANGED <<op, ret, nops, lock, cmd, loc, tret, committed>>

\* sim.clone(), the value get_simulation_state and step_simulation return.
Clone(t) ==
    /\ \/ pc[t] = "clone"
       \/ pc[t] = "body" /\ cmd[t].name = "get_simulation_state"
    /\ tret' = [tret EXCEPT ![t] = <<sim>>]
    /\ Goto(t, "unlock")
    /\ UNCHANGED <<sim, op, ret, nops, lock, cmd, loc, committed>>

\* The MutexGuard is dropped at the end of the command.
Unlock(t) ==
    /\ pc[t] = "unlock"
    /\ lock' = 0
    /\ committed' = sim
    /\ Goto(t, "idle")
    /\ UNCHANGED <<sim, op, ret, nops, cmd, loc, tret>>

NextConc ==
    \E t \in Threads :
        \/ Call(t)
        \/ Acquire(t)
        \/ Write(t)
        \/ StepEnter(t)
        \/ StepIntegrate(t)
        \/ StepDetect(t)
        \/ StepApply(t)
        \/ StepAdvance(t)
        \/ Clone(t)
        \/ Unlock(t)

SpecConc == Init /\ [][NextConc]_vars

\* ------------------------------------------------------------- claims

IsStep == op'.name = "step_simulation" /\ nops' = nops + 1
IsUpdate == op'.name = "update_body" /\ nops' = nops + 1
IsReset == op'.name = "reset_simulation" /\ nops' = nops + 1

FiniteVec(v) == IsFinite(v.x) /\ IsFinite(v.y)
AllFinite(bodies) ==
    \A k \in 1..Len(bodies) :
        FiniteVec(bodies[k].position) /\ FiniteVec(bodies[k].velocity)
Coincident(bodies) ==
    \E i, j \in 1..Len(bodies) :
        i < j /\ bodies[i].position = bodies[j].position

\* C1: a running step() from a state in which two bodies have exactly the
\* same position (and every position and velocity is finite) leaves every
\* position and velocity finite: the coincident pair is skipped, nothing
\* becomes NaN or Inf.
C1_CoincidentPairSkipped ==
    [][(IsStep /\ sim.is_running /\ Coincident(sim.bodies)
          /\ AllFinite(sim.bodies))
       => AllFinite(sim'.bodies)]_vars

\* C2: step() with is_running = false changes no field of the simulation
\* state, and returns that unchanged state.
C2_PausedStepChangesNothing ==
    [][(IsStep /\ ~sim.is_running) => (sim' = sim /\ ret' = <<sim>>)]_vars

\* A paused step has run on a state that is no longer the default one.
C2_Witness ==
    /\ op.name = "step_simulation"
    /\ ~sim.is_running
    /\ sim # New
    /\ ret = <<sim>>

\* C3 as stated: every step() run with is_running = true leaves
\* elapsed_time greater than or equal to its value before the step.
C3_ElapsedNeverDecreases ==
    [][(IsStep /\ sim.is_running)
       => Le(sim.elapsed_time, sim'.elapsed_time)]_vars

\* C3 amended: every step() run with is_running = true and
\* time_multiplier >= 0 leaves elapsed_time greater than or equal to its
\* value before the step.
C3_ElapsedNeverDecreasesForward ==
    [][(IsStep /\ sim.is_running /\ Le(Zero, sim.time_multiplier))
       => Le(sim.elapsed_time, sim'.elapsed_time)]_vars

\* A running step with a positive multiplier has advanced the clock.
C3_Witness ==
    /\ op.name = "step_simulation"
    /\ sim.is_running
    /\ sim.time_multiplier = F(2, 0)
    /\ Lt(Zero, sim.elapsed_time)

\* The value of a field after a patch of it was applied.
Patched(option, old) == IF option.some THEN option.v ELSE old

\* C4: update_body(id, patch) changes only the fields present in the
\* patch, only on the body of that id; every other body and time_step,
\* time_multiplier, gravity_constant, is_running and elapsed_time keep
\* their values; with no body of that id the whole state is unchanged.
C4_UpdateBodyFrame ==
    [][IsUpdate =>
        /\ Len(sim'.bodies) = Len(sim.bodies)
        /\ [sim' EXCEPT !.bodies = << >>] = [sim EXCEPT !.bodies = << >>]
        /\ \A k \in 1..Len(sim.bodies) :
               IF sim.bodies[k].id # op'.id
               THEN sim'.bodies[k] = sim.bodies[k]
               ELSE /\ sim'.bodies[k].id = sim.bodies[k].id
                    /\ sim'.bodies[k].mass =
                           Patched(op'.patch.mass, sim.bodies[k].mass)
                    /\ sim'.bodies[k].position.x =
                           Patched(op'.patch.position_x, sim.bodies[k].position.x)
                    /\ sim'.bodies[k].position.y =
                           Patched(op'.patch.position_y, sim.bodies[k].position.y)
                    /\ sim'.bodies[k].velocity.x =
                           Patched(op'.patch.velocity_x, sim.bodies[k].velocity.x)
                    /\ sim'.bodies[k].velocity.y =
                           Patched(op'.patch.velocity_y, sim.bodies[k].velocity.y)
                    /\ sim'.bodies[k].radius =
                           Patched(op'.patch.radius, sim.bodies[k].radius)
                    /\ sim'.bodies[k].color =
                           Patched(op'.patch.color, sim.bodies[k].color)
        /\ ((\A k \in 1..Len(sim.bodies) : sim.bodies[k].id # op'.id)
              => sim' = sim)]_vars

\* update_body has set only the mass of body 2 after the simulation ran:
\* the body keeps the position and velocity the step gave it.
C4_Witness ==
    /\ op.name = "update_body"
    /\ op.id = 2
    /\ op.patch = MassPatch
    /\ sim.bodies[2].mass = F(2, 3)
    /\ sim.bodies[2].position # New.bodies[2].position
    /\ sim.bodies[2].radius = New.bodies[2].radius

\* C6: in every reachable state the body sequence has the length it had
\* at construction and carries the ids 1, 2, ..., 7 in that order; so does
\* every snapshot returned.
C6_BodiesFixed ==
    /\ Len(sim.bodies) = 7
    /\ \A k \in 1..7 : sim.bodies[k].id = k
    /\ \A r \in 1..Len(ret) :
           Len(ret[r].bodies) = 7 /\ \A k \in 1..7 : ret[r].bodies[k].id = k

\* Every field of a body was updated and the simulation stepped since.
C6_Witness ==
    /\ op.name = "step_simulation"
    /\ sim.is_running
    /\ sim.bodies[2].color = "#ffffff"
    /\ Len(ret) = 1

\* C9: reset leaves the state create_default() produces: the seven
\* default bodies, time_multiplier 1, is_running false, elapsed_time 0.
C9_ResetRestoresDefault ==
    [][IsReset =>
        /\ sim' = New
        /\ sim'.time_multiplier = F(1, 0)
        /\ sim'.time_step = F(1, -2)
        /\ ~sim'.is_running
        /\ sim'.elapsed_time = Zero
        /\ Len(sim'.bodies) = 7
        /\ sim'.bodies[1] = sun
        /\ \A k \in 1..7 :
               /\ sim'.bodies[k].id = k
               /\ sim'.bodies[k].mass =
                      <<F(8, 3), F(1, 3), F(15, 2), F(3, 3), F(2, 3),
                        F(100, 0), F(50, 0)>>[k]
               /\ sim'.bodies[k].radius =
                      <<F(25, 0), F(10, 0), F(12, 0), F(18, 0), F(15, 0),
                        F(4, 0), F(3, 0)>>[k]]_vars

\* A reset has run as the last of MaxOps commands.
C9_Witness ==
    /\ op.name = "reset_simulation"
    /\ nops = MaxOps
    /\ sim = New

\* Semi-implicit Euler for one body: the new velocity from the force,
\* then the new position from the new velocity.
C10_Velocity(body, force, dt) ==
    Vec2(Add(body.velocity.x, Mul(Div(force.x, body.mass), dt)),
         Add(body.velocity.y, Mul(Div(force.y, body.mass), dt)))
C10_Position(body, velocity, dt) ==
    Vec2(Add(body.position.x, Mul(velocity.x, dt)),
         Add(body.position.y, Mul(velocity.y, dt)))
C10_Euler(body, force, dt) ==
    [body EXCEPT
       !.velocity = C10_Velocity(body, force, dt),
       !.position = C10_Position(body, C10_Velocity(body, force, dt), dt)]
NoOverlap(bodies) ==
    \A i, j \in 1..Len(bodies) :
        i < j => ~Lt(distance(bodies[i].position, bodies[j].position),
                     Add(bodies[i].radius, bodies[j].radius))

\* C10: a running step() after whose integration no two bodies overlap
\* is semi-implicit Euler with dt_eff = time_step * time_multiplier: new
\* velocity = old velocity + (force / mass) * dt_eff with the forces of the
\* positions before the step, new position = old position + new velocity *
\* dt_eff, and elapsed_time grows by dt_eff.
C10_SemiImplicitEuler ==
    [][(IsStep /\ sim.is_running) =>
        \A dt \in {Mul(sim.time_step, sim.time_multiplier)} :
        \A forces \in {calculate_forces(sim)} :
        \A expected \in {[k \in 1..Len(sim.bodies) |->
                            C10_Euler(sim.bodies[k], forces[k], dt)]} :
            NoOverlap(expected) =>
                /\ sim'.bodies = expected
                /\ sim'.elapsed_time = Add(sim.elapsed_time, dt)]_vars

\* A running step has moved the default bodies, none overlapping: the
\* sun, at rest before, has a velocity.
C10_Witness ==
    /\ op.name = "step_simulation"
    /\ sim.is_running
    /\ sim.elapsed_time = F(1, -2)
    /\ sim.bodies[1].velocity # Vec2(Zero, Zero)
    /\ NoOverlap(sim.bodies)

IsCollide == op'.name = "handle_collisions" /\ nops' = nops + 1

\* The direct-collision scenario on bodies 1 and 2: equal mass, radius
\* 10, centres 15 apart, approaching head-on at speed 10 each.
DirectCollision(bodies) ==
    /\ bodies[1].mass = bodies[2].mass
    /\ bodies[1].radius = F(10, 0) /\ bodies[2].radius = F(10, 0)
    /\ distance(bodies[1].position, bodies[2].position) = F(15, 0)
    /\ Hypot(bodies[1].velocity.x, bodies[1].velocity.y) = F(10, 0)
    /\ bodies[2].velocity = Vec2(Neg(bodies[1].velocity.x), Neg(bodies[1].velocity.y))
    /\ Lt(Add(Mul(Sub(bodies[2].position.x, bodies[1].position.x),
                  bodies[1].velocity.x),
              Mul(Sub(bodies[2].position.y, bodies[1].position.y),
                  bodies[1].velocity.y)),
          Zero) = FALSE

\* The tolerance of the comparisons of distances.
Tolerance == F(1, -2)

\* C7 as stated: after one collision-resolution pass on the direct-
\* collision scenario the distance between the corrected positions is at
\* least the sum of radii, 20, up to the tolerance.
C7_SeparatedAfterOnePass ==
    [][(IsCollide /\ DirectCollision(sim.bodies))
       => Le(Sub(F(20, 0), Tolerance),
             distance(sim'.bodies[1].position, sim'.bodies[2].position))]_vars

\* C7 amended: after one pass the distance between the corrected
\* positions is the distance before plus 40% of the penetration,
\* 15 + 0.4 * (20 - 15) = 17, up to the tolerance: larger than before,
\* still short of the sum of radii.
C7_FortyPercentCorrected ==
    [][(IsCollide /\ DirectCollision(sim.bodies))
       => /\ Le(Sub(F(17, 0), Tolerance),
                distance(sim'.bodies[1].position, sim'.bodies[2].position))
          /\ Le(distance(sim'.bodies[1].position, sim'.bodies[2].position),
                Add(F(17, 0), Tolerance))]_vars

\* The pass has run on a direct-collision scenario: the two bodies are 17
\* apart and keep their masses and radii.
C7_Witness ==
    /\ op.name = "handle_collisions"
    /\ sim.bodies[1].mass = sim.bodies[2].mass
    /\ sim.bodies[1].radius = F(10, 0) /\ sim.bodies[2].radius = F(10, 0)
    /\ distance(sim.bodies[1].position, sim.bodies[2].position) = F(17, 0)
    /\ sim.bodies[1].position.y # sim.bodies[2].position.y

\* The correction the pair (i, j) makes to body k, computed from the
\* bodies as they are before the pass: nothing when the pair does not
\* collide or k is not of the pair.
C8_NoDelta == [vel |-> Vec2(Zero, Zero), pos |-> Vec2(Zero, Zero)]
C8_DeltaOf(entry, k) ==
    IF entry = << >> THEN C8_NoDelta
    ELSE IF entry[1].i = k THEN [vel |-> entry[1].vel_i, pos |-> entry[1].pos_i]
    ELSE IF entry[1].j = k THEN [vel |-> entry[1].vel_j, pos |-> entry[1].pos_j]
    ELSE C8_NoDelta
C8_Delta(before, pair, k) ==
    C8_DeltaOf(CollisionEntry(before, pair[1], pair[2]), k)

C8_Plus(a, d) == [vel |-> AddVec(a.vel, d.vel), pos |-> AddVec(a.pos, d.pos)]

\* Body k of before plus the corrections of the pairs of order, summed
\* in that order.
RECURSIVE C8_Sum(_, _, _, _)
C8_Sum(before, order, k, n) ==
    IF n = 0 THEN [vel |-> before[k].velocity, pos |-> before[k].position]
    ELSE C8_Plus(C8_Sum(before, order, k, n - 1),
                 C8_Delta(before, order[n], k))

\* The pairs of the three bodies of a scene, in every order.
C8_Pairs == {<<1, 2>>, <<1, 3>>, <<2, 3>>}
C8_Orders ==
    {o \in [1..3 -> C8_Pairs] : \A a, b \in 1..3 : a # b => o[a] # o[b]}

\* Three bodies, the first overlapping... the bodies 1, 2, 3 of which one
\* overlaps the two others.
C8_Touching(bodies, i, j) ==
    Lt(distance(bodies[i].position, bodies[j].position),
       Add(bodies[i].radius, bodies[j].radius))
C8_TwoContacts(bodies) ==
    \E k \in 1..3 : \A h \in (1..3) \ {k} :
        C8_Touching(bodies, IF h < k THEN h ELSE k, IF h < k THEN k ELSE h)

\* The order in which the detection loops take the pairs.
C8_Detected == <<(<<1, 2>>), (<<1, 3>>), (<<2, 3>>)>>

\* Two values that differ by no more than the rounding of three additions.
C8_Rounding == F(5, -2)
C8_Close(a, b) ==
    /\ Le(Sub(a, b), C8_Rounding)
    /\ Le(Sub(b, a), C8_Rounding)
C8_CloseVec(a, b) == C8_Close(a.x, b.x) /\ C8_Close(a.y, b.y)

C8_Agrees(after, before, order, k) ==
    /\ C8_CloseVec(after[k].position, C8_Sum(before, order, k, 3).pos)
    /\ C8_CloseVec(after[k].velocity, C8_Sum(before, order, k, 3).vel)

C8_SumInAnyOrderExactly ==
    [][(IsCollide /\ C8_TwoContacts(sim.bodies)) =>
        \A order \in C8_Orders : \A k \in 1..3 :
            /\ sim'.bodies[k].position = C8_Sum(sim.bodies, order, k, 3).pos
            /\ sim'.bodies[k].velocity = C8_Sum(sim.bodies, order, k, 3).vel]_vars

\* A pass has corrected a body that overlapped the two others, both
\* pairs approaching, and moved it.
C8_Approaching(bodies, i, j) ==
    CollisionEntry(bodies, i, j) # << >>
    /\ CollisionEntry(bodies, i, j)[1].vel_i # Vec2(Zero, Zero)
C5_Serialized ==
    /\ lock = 0 => sim = committed
    /\ \A t \in Threads :
           pc[t] = "unlock" =>
               /\ lock = t
               /\ cmd[t].name = "get_simulation_state" =>
                      sim = committed /\ tret[t] = <<committed>>
               /\ cmd[t].name = "step_simulation" =>
                      sim = step(committed) /\ tret[t] = <<sim>>
               /\ cmd[t].name \in Writers => sim = Effect(cmd[t], committed)

\* A running step has integrated some bodies and not the others while
\* another caller's get_simulation_state waits for the lock.
C5_Witness ==
    \E t, u \in Threads :
        /\ pc[t] = "integrate"
        /\ loc[t].k > 1
        /\ loc[t].k <= Len(sim.bodies)
        /\ sim # committed
        /\ pc[u] = "lock"
        /\ cmd[u].name = "get_simulation_state"
====
